---- MODULE Spec2Model ----
(***************************************************************************)
(* The useDataFetcher hook of the crypto price tracker front end: the      *)
(* bootstrap fetch, the streaming connection with its event handlers, the  *)
(* bounded series, the backoff reconnection and the recovery triggers.     *)
(*                                                                         *)
(* Two revisions of the hook are in the repository and both are modelled:  *)
(*   "effect"  frontend-react-app/src/hooks/useDataFetcher.js (socket and  *)
(*             timer handle owned by the effect, no element validation)    *)
(*   "refs"    unnamed/part_003 (socket and timer handle kept in refs,     *)
(*             element validation, onopen clears the timer handle)         *)
(* The variable variant selects the revision; it never changes.            *)
(***************************************************************************)
EXTENDS Integers, Sequences, FiniteSets, TLC

VARIABLES
  variant,               \* which revision of the hook runs
  lifecycle,             \* "created" -> "mounted" -> "unmounted"
  sockets,               \* WebSocket instances in creation order, oldest first: the
                         \* state of each; the last one is ws / wsRef.current, the
                         \* earlier ones are replaced instances that are not closed yet
  timers,                \* pending setTimeout timers in scheduling order: their delays (ms)
  reconnectTimeout,      \* reconnectTimeout / reconnectTimeoutRef.current: "null", or
                         \* the id of the timer scheduled last: "pending" or "fired"
  reconnectAttempt,      \* reconnectAttemptRef.current
  isWebSocketConnected,  \* React state
  dataPoints,            \* React state: the series
  seriesKind,            \* React state: the kind of value the series state holds,
                         \* "array" (then dataPoints is its content), "object" or "null"
  isLoading,             \* React state
  error,                 \* React state: "null" or the message
  fetchState,            \* "idle" | "pending" | "done": the bootstrap request
  stale,                 \* instances of earlier runs of the effect that are still
                         \* connecting: their handlers see isMounted = false
  sockBudget,            \* environment: connections the network will still start, -1 = no limit
  msgBudget,             \* environment: messages the server will still push
  failBudget,            \* environment: connection failures still to come before the
                         \* streaming endpoint is available for good, -1 = no limit
  nSched,                \* history: timers scheduled since the last activation / open / trigger
  arrived,               \* history: what was handed to setDataPoints since the last
                         \* replace-all, in arrival order
  last                   \* history: the event handled last and what it did

vars == <<variant, lifecycle, sockets, timers, reconnectTimeout, reconnectAttempt,
          isWebSocketConnected, dataPoints, seriesKind, isLoading, error, fetchState,
          stale, sockBudget, msgBudget, failBudget, nSched, arrived, last>>

connVars == <<sockets, timers, reconnectTimeout, reconnectAttempt, isWebSocketConnected,
              stale>>
dataVars == <<dataPoints, seriesKind, isLoading, error, fetchState>>

(***************************************************************************)
(* Bounds of the model                                                     *)
(***************************************************************************)
MaxSock == 3      \* WebSocket instances that are not yet closed, at one time
MaxTimers == 3    \* pending timers at one time
MaxMsgs == 2      \* messages pushed by the server in a data-centred run
MaxBatch == 2     \* elements of one pushed batch
DataSockets == 2  \* connections started in a data-centred run
ConnMsgs == 1     \* messages pushed by the server in a connection-centred run
MaxFailures == 11 \* connection failures before the endpoint is available for good
RemountSockets == 3  \* connections started in a run with re-activation
FlapSockets == 12    \* connections started in a run where every connection opens
DownSockets == 12    \* connections the network would start in a run where none opens

(***************************************************************************)
(* Program constants                                                       *)
(***************************************************************************)
RECONNECT_DELAYS == <<1000, 2000, 4000, 8000, 16000, 30000>>
MAX_RECONNECT_ATTEMPTS == 10
SeriesCap == 500

Variants == {"effect", "refs"}

MinOf(a, b) == IF a <= b THEN a ELSE b
Remove(q, i) == SubSeq(q, 1, i - 1) \o SubSeq(q, i + 1, Len(q))

isMounted == lifecycle = "mounted"

\* ws / wsRef.current: the index of the instance created last, 0 = null
ws == Len(sockets)

\* WebSocket.readyState of an instance.  "ERRORED" is an instance whose
\* connection is gone and whose error event has been dispatched while its
\* close event is still to be dispatched in the same task: readyState is
\* already CLOSED.
ReadyState(st) == IF st = "ERRORED" THEN "CLOSED" ELSE st

Live(st) == st \in {"CONNECTING", "OPEN"}
LiveSockets == {s \in 1..Len(sockets) : Live(sockets[s])}

\* No event dispatch is half way: error and close of one instance are
\* dispatched back to back, nothing runs in between.
Quiescent == \A s \in 1..Len(sockets) : sockets[s] # "ERRORED"

(***************************************************************************)
(* Data: elements of a batch as JSON.parse delivers them                   *)
(***************************************************************************)
RequiredFields == {"id", "asset_id", "timestamp", "price_usd", "volume_24h"}

\* What the checks of the code can see of an element: its typeof kind, the
\* required fields it lacks, the typeof class of price_usd and volume_24h,
\* its timestamp, and whether its asset_id is one of the known symbols.
Shape(kind, missing, price, volume, ts, asset) ==
  [kind |-> kind, missing |-> missing, price |-> price, volume |-> volume, ts |-> ts,
   asset |-> asset]

\* The series and the batches hold elements by number; Point(c) is the
\* element with number c:
\*   1..SeriesCap+1  the points of the historical series, timestamps rising
\*   901, 902        well-formed streamed points; 902 carries a timestamp
\*                   older than every other point
\*   903             {bad: "data"}
\*   904             a record with all fields whose price_usd is a string
Streamed == <<901, 902, 903, 904>>
G1 == Streamed[1]
G2 == Streamed[2]
BadData == Streamed[3]
StrPrice == Streamed[4]
\* Further elements a batch can carry, by number:
\*   911 null   912 a number   913 a string   914 a nested array
\*   915..919   a record that lacks exactly one of the required fields
\*   920        volume_24h is a string
\*   921, 922   price_usd / volume_24h is 1e999, which JSON.parse reads as Infinity
\*   923        price_usd is null
\*   924        a well-formed record whose asset_id is no known symbol
Probes == <<911, 912, 913, 914, 915, 916, 917, 918, 919, 920, 921, 922, 923, 924>>
FieldOrder == <<"id", "asset_id", "timestamp", "price_usd", "volume_24h">>
LacksOne(f) ==
  Shape("object", {f}, IF f = "price_usd" THEN "absent" ELSE "number",
        IF f = "volume_24h" THEN "absent" ELSE "number", 13, "known")

Point(c) ==
  CASE c = BadData -> Shape("object", RequiredFields, "absent", "absent", 0, "absent")
    [] c = StrPrice -> Shape("object", {}, "string", "number", 12, "known")
    [] c = G1 -> Shape("object", {}, "number", "number", 11, "known")
    [] c = G2 -> Shape("object", {}, "number", "number", 1, "known")
    [] c = Probes[1] -> Shape("null", RequiredFields, "absent", "absent", 0, "absent")
    [] c = Probes[2] -> Shape("number", RequiredFields, "absent", "absent", 0, "absent")
    [] c = Probes[3] -> Shape("string", RequiredFields, "absent", "absent", 0, "absent")
    [] c = Probes[4] -> Shape("array", RequiredFields, "absent", "absent", 0, "absent")
    [] c \in {Probes[i] : i \in 5..9} ->
         LacksOne(FieldOrder[CHOOSE i \in 1..5 : Probes[i + 4] = c])
    [] c = Probes[10] -> Shape("object", {}, "number", "string", 13, "known")
    [] c = Probes[11] -> Shape("object", {}, "infinity", "number", 13, "known")
    [] c = Probes[12] -> Shape("object", {}, "number", "infinity", 13, "known")
    [] c = Probes[13] -> Shape("object", {}, "null", "number", 13, "known")
    [] c = Probes[14] -> Shape("object", {}, "number", "number", 13, "unknown")
    [] OTHER -> Shape("object", {}, "number", "number", 10 + c, "known")

Elements == {G1, G2, BadData, StrPrice}

\* The payload of a message event: text that JSON.parse rejects, or the
\* value it parses to.
Payload(json, items) == [json |-> json, items |-> items]
NoPayload == Payload("none", <<>>)
Batches == UNION {[1..n -> Elements] : n \in 0..MaxBatch}
Payloads == {Payload(j, <<>>) : j \in {"invalid", "object", "null", "number", "string"}}
            \cup {Payload("array", b) : b \in Batches}
PlainPayloads == {Payload("array", <<G1>>)}
\* One-element batches, one for each kind of element
ProbeElements == Elements \cup {Probes[i] : i \in 1..Len(Probes)}
ProbePayloads == {Payload("array", <<c>>) : c \in ProbeElements}

\* Bootstrap bodies: the historical series the HTTP endpoint answers with.
History(n) == [i \in 1..n |-> i]
Bodies == {History(1), History(SeriesCap - 1), History(SeriesCap + 1), <<BadData>>}
\* An outcome of the request: "ok" is a 2xx response whose body parses, to
\* an array (body) or to another JSON value (json); the other kinds are a
\* rejected fetch, a non-2xx status and a body that does not parse.
Outcome(kind, json, body) == [kind |-> kind, json |-> json, body |-> body]
Outcomes == {Outcome("ok", "array", b) : b \in Bodies}
            \cup {Outcome(k, "none", <<>>) : k \in {"network", "status", "parse"}}
PlainOutcomes == {Outcome("ok", "array", History(1))}
\* 2xx responses whose body parses to a value that is not an array
MalformedOutcomes == {Outcome("ok", j, <<>>) : j \in {"object", "null"}}
BootOutcomes == PlainOutcomes \cup MalformedOutcomes \cup {Outcome("status", "none", <<>>)}

\* The element-wise check of the "refs" revision (typeof, `in`, isNaN).
\* JSON.parse never yields NaN; 1e999 parses to Infinity, a number that is
\* not NaN.
ValidShape(p) ==
  /\ p.kind \in {"object", "array"}
  /\ p.missing = {}
  /\ p.price \in {"number", "infinity"}
  /\ p.volume \in {"number", "infinity"}

ValidPoint(c) == ValidShape(Point(c))

\* The elements of an array batch that onmessage hands to the updater.
Accepted(v, items) ==
  IF v = "refs" THEN SelectSeq(items, ValidPoint) ELSE items

\* Mutation of Updates: no batch is applied unless the bootstrap has succeeded
UpdatesWhenLoaded(v, p) == p.json = "array" /\ ~isLoading /\ error = "null"

\* Whether onmessage calls setDataPoints at all for the payload.
Updates(v, p) ==
  /\ p.json = "array"
  /\ (v = "refs" => Accepted(v, p.items) # <<>>)

\* Array.prototype.slice(-n)
SliceLast(q, n) == IF Len(q) <= n THEN q ELSE SubSeq(q, Len(q) - n + 1, Len(q))

RECURSIVE EvictOldest(_, _)
EvictOldest(q, n) ==
  IF Len(q) <= n THEN q
  ELSE LET i == CHOOSE i \in 1..Len(q) :
                  \A j \in 1..Len(q) : Point(q[i]).ts <= Point(q[j]).ts
       IN EvictOldest(SubSeq(q, 1, i - 1) \o SubSeq(q, i + 1, Len(q)), n)
\* Mutation of AppendBatch: eviction by timestamp instead of insertion order
AppendBatchByTimestamp(prev, batch) == EvictOldest(prev \o batch, SeriesCap)

\* The functional updater of onmessage.
AppendBatch(prev, batch) == SliceLast(prev \o batch, SeriesCap)

\* fetchInitialData, success: the value handed to setDataPoints
ReplaceAllAppended(prev, body) == body \o prev   \* mutation: it is kept behind the body
ReplaceAllMerged(prev, body) == prev \o body   \* mutation: the previous series is kept
ReplaceAll(prev, body) == body

\* fetchInitialData, catch: the value handed to setError
ErrorAfterFetchFailureKept(err) == err         \* mutation: no message is recorded
ErrorAfterFetchFailure(err) == "Could not connect to Python HTTP API."

\* fetchInitialData: the request once its outcome is processed; nothing
\* issues it again
FetchStateAfterRetry(o) ==                     \* mutation: a failed request is repeated
  IF o.kind = "ok" THEN "done" ELSE "pending"
FetchStateAfter(o) == "done"

\* onopen: it does not call setError
ErrorAfterOpenCleared(err) == "null"           \* mutation: setError(null)
ErrorAfterOpen(err) == err

\* useState(true): isLoading before the bootstrap outcome is processed
InitialLoadingDone == FALSE                    \* mutation: useState(false)
InitialLoading == TRUE

\* onmessage: nothing in it, the catch included, calls setError
ErrorAfterMessageSurfaced(err, p) ==           \* mutation
  IF p.json = "invalid" THEN "Invalid message." ELSE err
ErrorAfterMessage(err, p) == err

\* onerror: it logs and does not call setIsWebSocketConnected
ConnectedAfterErrorCleared(c) == FALSE         \* mutation
ConnectedAfterError(c) == c

\* onerror, onclose, attemptReconnect: none of them calls setError
ErrorAfterFailureSurfaced(err) == "WebSocket connection failed."   \* mutation
ErrorAfterFailure(err) == err

(***************************************************************************)
(* Reconnection policy                                                     *)
(***************************************************************************)
\* attemptReconnect: the delay looked up for the current attempt counter
DelayFor(attempt) ==
  RECONNECT_DELAYS[MinOf(attempt, Len(RECONNECT_DELAYS) - 1) + 1]

\* Mutation of Exhausted: the hard stop is missing
ExhaustedNever(attempt) == FALSE

\* Mutation of Exhausted: no retry is ever scheduled
ExhaustedAlways(attempt) == TRUE

\* attemptReconnect: the hard stop
Exhausted(attempt) == attempt >= MAX_RECONNECT_ATTEMPTS

\* Mutation of ShouldRecover: acts whatever the state of the connection
ShouldRecoverAlways(cur, socks) == TRUE

\* Mutation of ShouldRecover: acts only while no instance was ever created
ShouldRecoverNullOnly(cur, socks) == cur = 0

\* handleRecoveryTrigger: the condition under which it acts (cur = 0: ws is null)
ShouldRecover(cur, socks) == cur = 0 \/ ReadyState(socks[cur]) # "OPEN"

\* Mutation of CleanupCloses: the cleanup never calls close()
CleanupClosesNever(v, cur, socks) == FALSE

\* cleanup: whether it calls close() on the current instance
CleanupCloses(v, cur, socks) ==
  /\ cur # 0
  /\ (v = "refs" => ReadyState(socks[cur]) = "OPEN")

\* The setTimeout callback: reconnectAttemptRef.current++
AttemptAfterTimerKept(attempt) == attempt      \* mutation: the increment is missing
AttemptAfterTimer(attempt) == attempt + 1

\* Mutation of AttemptAfterOpen: the counter restarts at 1
AttemptAfterOpenOne(attempt) == 1

\* Mutation of AttemptAfterOpen: the reset is missing
AttemptAfterOpenKept(attempt) == attempt

\* onopen: the value the attempt counter gets
AttemptAfterOpen(attempt) == 0

\* clearTimeout(h) guarded by `if (h)`: the timer the handle names is the
\* one scheduled last; clearing a fired timer does nothing
ClearTimeout(tm, h) == IF h = "pending" THEN SubSeq(tm, 1, Len(tm) - 1) ELSE tm

\* onopen: the pending timers and the handle after the handler
TimersAfterOpen(v, tm, h) == IF v = "refs" THEN ClearTimeout(tm, h) ELSE tm
HandleAfterOpen(v, h) == IF v = "refs" THEN "null" ELSE h

\* Timers fire in the order of their deadlines: a timer scheduled earlier
\* with a delay that is not longer fires first.
CanFire(tm, i) == \A j \in 1..(i - 1) : tm[j] > tm[i]

(***************************************************************************)
(* History record                                                          *)
(***************************************************************************)
Suspended ==
  /\ isMounted
  /\ reconnectAttempt >= MAX_RECONNECT_ATTEMPTS
  /\ LiveSockets = {}
  /\ timers = <<>>

Pre == [attempt |-> reconnectAttempt, live |-> Cardinality(LiveSockets),
        handle |-> reconnectTimeout,
        wsState |-> IF ws = 0 THEN "null" ELSE ReadyState(sockets[ws]),
        suspended |-> Suspended, len |-> Len(dataPoints)]

Event(ev, cur, opened, delay, sig, payload) ==
  [ev |-> ev, cur |-> cur, opened |-> opened, delay |-> delay, sig |-> sig,
   payload |-> payload, pre |-> Pre]


(***************************************************************************)
(* setupWebSocket, attemptReconnect: the parts shared by the handlers      *)
(***************************************************************************)
\* The instances once the reference to a closed current instance is dropped.
Released == IF ws # 0 /\ sockets[ws] = "CLOSED" THEN SubSeq(sockets, 1, ws - 1) ELSE sockets
CanCreate == Len(Released) < MaxSock /\ sockBudget # 0

\* setupWebSocket(), run with pending timers tm and handle h: clears the
\* handle, then creates the new instance and makes it current.  The previous
\* instance is neither closed nor detached from its handlers.
SetupWebSocket(tm, h) ==
  /\ CanCreate
  /\ timers' = ClearTimeout(tm, h)
  /\ reconnectTimeout' = "null"
  /\ sockets' = Append(Released, "CONNECTING")
  /\ sockBudget' = IF sockBudget = -1 THEN -1 ELSE sockBudget - 1

\* The environment: a connection can fail while failures are left
CanFail == failBudget # 0
AfterFailure == IF failBudget = -1 THEN -1 ELSE failBudget - 1

NextSched == IF nSched > MAX_RECONNECT_ATTEMPTS THEN nSched ELSE nSched + 1

(***************************************************************************)
(* Actions                                                                 *)
(***************************************************************************)
\* useEffect body: fetchInitialData(); setupWebSocket(); addEventListener x2
Mount ==
  /\ lifecycle = "created"
  /\ lifecycle' = "mounted"
  /\ fetchState' = "pending"
  /\ SetupWebSocket(timers, reconnectTimeout)
  /\ nSched' = 0
  /\ last' = Event("mount", FALSE, TRUE, 0, "none", NoPayload)
  /\ UNCHANGED <<variant, reconnectAttempt, isWebSocketConnected, dataPoints, seriesKind,
                 isLoading, error, stale, msgBudget, failBudget, arrived>>

\* fetchInitialData: the request completes with outcome o
FetchDone(o) ==
  /\ Quiescent
  /\ fetchState = "pending"
  /\ fetchState' = FetchStateAfter(o)
  /\ IF isMounted
       THEN IF o.kind = "ok"
              THEN /\ dataPoints' = ReplaceAll(dataPoints, o.body)
                   /\ seriesKind' = o.json
                   /\ isLoading' = FALSE
                   /\ error' = error
                   /\ arrived' = [boot |-> TRUE, early |-> arrived.seq # <<>>,
                                  seq |-> o.body]
              ELSE /\ error' = ErrorAfterFetchFailure(error)
                   /\ isLoading' = FALSE
                   /\ UNCHANGED <<dataPoints, seriesKind, arrived>>
       ELSE UNCHANGED <<dataPoints, seriesKind, isLoading, error, arrived>>
  /\ last' = Event("fetch", FALSE, FALSE, 0, o.kind, Payload(o.json, o.body))
  /\ UNCHANGED <<variant, lifecycle, connVars, sockBudget, msgBudget, failBudget, nSched>>

\* ws.onopen of instance s
SocketOpen(s) ==
  /\ Quiescent
  /\ s \in 1..Len(sockets)
  /\ sockets[s] = "CONNECTING"
  /\ sockets' = [sockets EXCEPT ![s] = "OPEN"]
  /\ timers' = TimersAfterOpen(variant, timers, reconnectTimeout)
  /\ reconnectTimeout' = HandleAfterOpen(variant, reconnectTimeout)
  /\ reconnectAttempt' = AttemptAfterOpen(reconnectAttempt)
  /\ isWebSocketConnected' = IF isMounted THEN TRUE ELSE isWebSocketConnected
  /\ nSched' = 0
  /\ error' = ErrorAfterOpen(error)
  /\ last' = Event("open", s = ws, FALSE, 0, "none", NoPayload)
  /\ UNCHANGED <<variant, lifecycle, dataPoints, seriesKind, isLoading, fetchState, stale,
                 sockBudget, msgBudget, failBudget, arrived>>

\* ws.onmessage of instance s with payload p.  The updater spreads the
\* previous series: on a series that is no array it throws while React
\* renders, and such a run is not followed further.
SocketMessage(s, p) ==
  /\ Quiescent
  /\ (isMounted /\ Updates(variant, p)) => seriesKind = "array"
  /\ s \in 1..Len(sockets)
  /\ sockets[s] = "OPEN"
  /\ msgBudget > 0
  /\ msgBudget' = msgBudget - 1
  /\ IF isMounted /\ Updates(variant, p)
       THEN /\ dataPoints' = AppendBatch(dataPoints, Accepted(variant, p.items))
            /\ arrived' = [arrived EXCEPT !.seq = @ \o Accepted(variant, p.items)]
       ELSE UNCHANGED <<dataPoints, arrived>>
  /\ error' = ErrorAfterMessage(error, p)
  /\ last' = Event("message", s = ws, FALSE, 0, "none", p)
  /\ UNCHANGED <<variant, lifecycle, connVars, seriesKind, isLoading, fetchState,
                 sockBudget, failBudget, nSched>>

\* ws.onerror of instance s: the connection is lost, the handler only logs
SocketError(s) ==
  /\ Quiescent
  /\ s \in 1..Len(sockets)
  /\ sockets[s] \in {"CONNECTING", "OPEN"}
  /\ CanFail
  /\ failBudget' = AfterFailure
  /\ sockets' = [sockets EXCEPT ![s] = "ERRORED"]
  /\ error' = ErrorAfterFailure(error)
  /\ last' = Event("error", s = ws, FALSE, 0, "none", NoPayload)
  /\ isWebSocketConnected' = ConnectedAfterError(isWebSocketConnected)
  /\ UNCHANGED <<variant, lifecycle, timers, reconnectTimeout, reconnectAttempt,
                 dataPoints, seriesKind, isLoading, fetchState, stale, sockBudget,
                 msgBudget, nSched, arrived>>

\* ws.onclose of instance s, attemptReconnect() included
SocketClose(s) ==
  /\ s \in 1..Len(sockets)
  /\ (Quiescent \/ sockets[s] = "ERRORED")
  /\ sockets[s] \in {"CONNECTING", "OPEN", "CLOSING", "ERRORED"}
  /\ IF Live(sockets[s])
       THEN CanFail /\ failBudget' = AfterFailure
       ELSE failBudget' = failBudget
  /\ error' = ErrorAfterFailure(error)
  /\ sockets' = IF s = ws THEN [sockets EXCEPT ![s] = "CLOSED"] ELSE Remove(sockets, s)
  /\ IF ~isMounted
       THEN /\ UNCHANGED <<timers, reconnectTimeout, isWebSocketConnected, nSched>>
            /\ last' = Event("close", s = ws, FALSE, 0, "none", NoPayload)
       ELSE /\ isWebSocketConnected' = FALSE
            /\ IF Exhausted(reconnectAttempt)
                 THEN /\ UNCHANGED <<timers, reconnectTimeout, nSched>>
                      /\ last' = Event("close", s = ws, FALSE, 0, "none", NoPayload)
                 ELSE /\ Len(timers) < MaxTimers
                      /\ timers' = Append(timers, DelayFor(reconnectAttempt))
                      /\ reconnectTimeout' = "pending"
                      /\ nSched' = NextSched
                      /\ last' = Event("close", s = ws, FALSE, DelayFor(reconnectAttempt),
                                       "none", NoPayload)
  /\ UNCHANGED <<variant, lifecycle, reconnectAttempt, dataPoints, seriesKind, isLoading,
                 fetchState, stale, sockBudget, msgBudget, arrived>>

\* The setTimeout callback of attemptReconnect, for the i-th pending timer
IsHandle(i) == reconnectTimeout = "pending" /\ i = Len(timers)
TimerFire(i) ==
  /\ Quiescent
  /\ i \in 1..Len(timers)
  /\ CanFire(timers, i)
  /\ IF ~isMounted
       THEN /\ timers' = Remove(timers, i)
            /\ reconnectTimeout' = IF IsHandle(i) THEN "fired" ELSE reconnectTimeout
            /\ last' = Event("timer", IsHandle(i), FALSE, 0, "none", NoPayload)
            /\ UNCHANGED <<sockets, reconnectAttempt, sockBudget>>
       ELSE /\ reconnectAttempt' = AttemptAfterTimer(reconnectAttempt)
            /\ SetupWebSocket(Remove(timers, i),
                              IF IsHandle(i) THEN "fired" ELSE reconnectTimeout)
            /\ last' = Event("timer", IsHandle(i), TRUE, 0, "none", NoPayload)
  /\ UNCHANGED <<variant, lifecycle, isWebSocketConnected, dataVars, stale, msgBudget,
                 failBudget, nSched, arrived>>

\* handleRecoveryTrigger, called for visibilitychange (to visible or to
\* hidden) and for online
Signals == {"visible", "hidden", "online"}
RecoveryTrigger(sig) ==
  /\ Quiescent
  /\ isMounted
  /\ IF ShouldRecover(ws, sockets)
       THEN /\ reconnectAttempt' = 0
            /\ SetupWebSocket(timers, reconnectTimeout)
            /\ nSched' = 0
            /\ last' = Event("trigger", FALSE, TRUE, 0, sig, NoPayload)
       ELSE /\ UNCHANGED <<sockets, timers, reconnectTimeout, reconnectAttempt,
                           sockBudget, nSched>>
            /\ last' = Event("trigger", FALSE, FALSE, 0, sig, NoPayload)
  /\ UNCHANGED <<variant, lifecycle, isWebSocketConnected, dataVars, stale, msgBudget,
                 failBudget, arrived>>

\* The cleanup returned by the effect
Unmount ==
  /\ Quiescent
  /\ isMounted
  /\ lifecycle' = "unmounted"
  /\ timers' = ClearTimeout(timers, reconnectTimeout)
  /\ reconnectTimeout' = "null"
  /\ sockets' = IF CleanupCloses(variant, ws, sockets) /\ Live(sockets[ws])
                  THEN [sockets EXCEPT ![ws] = "CLOSING"]
                  ELSE sockets
  /\ last' = Event("unmount", FALSE, FALSE, 0, "none", NoPayload)
  /\ UNCHANGED <<variant, reconnectAttempt, isWebSocketConnected, dataVars, stale,
                 sockBudget, msgBudget, failBudget, nSched, arrived>>

\* The effect runs again on the same hook instance after its cleanup (React
\* StrictMode mounts, cleans up and mounts again): the body starts with a
\* new isMounted and, in the "effect" revision, new ws and reconnectTimeout;
\* the refs and the React state are the ones the first run left.  The
\* handlers of the instances and timers of the earlier run see their own
\* isMounted, which stays false: those timers and the instances that are
\* past connecting can change nothing and are dropped here.
Connecting == {s \in 1..Len(sockets) : sockets[s] = "CONNECTING"}
Remount ==
  /\ Quiescent
  /\ lifecycle = "unmounted"
  /\ sockBudget # 0
  /\ lifecycle' = "mounted"
  /\ fetchState' = "pending"
  /\ stale' = stale + Cardinality(Connecting)
  /\ sockets' = <<"CONNECTING">>
  /\ timers' = <<>>
  /\ reconnectTimeout' = "null"
  /\ sockBudget' = IF sockBudget = -1 THEN -1 ELSE sockBudget - 1
  /\ nSched' = 0
  /\ last' = Event("remount", FALSE, TRUE, 0, "none", NoPayload)
  /\ UNCHANGED <<variant, reconnectAttempt, isWebSocketConnected, dataPoints, seriesKind,
                 isLoading, error, msgBudget, failBudget, arrived>>

\* ws.onopen of an instance of an earlier run of the effect
StaleOpen ==
  /\ Quiescent
  /\ stale > 0
  /\ stale' = stale - 1
  /\ timers' = TimersAfterOpen(variant, timers, reconnectTimeout)
  /\ reconnectTimeout' = HandleAfterOpen(variant, reconnectTimeout)
  /\ reconnectAttempt' = AttemptAfterOpen(reconnectAttempt)
  /\ last' = Event("staleopen", FALSE, FALSE, 0, "none", NoPayload)
  /\ UNCHANGED <<variant, lifecycle, sockets, isWebSocketConnected, dataVars, sockBudget,
                 msgBudget, failBudget, nSched, arrived>>

\* ws.onclose of an instance of an earlier run of the effect that fails to
\* connect: the handler returns at once
StaleClose ==
  /\ Quiescent
  /\ stale > 0
  /\ stale' = stale - 1
  /\ CanFail
  /\ failBudget' = AfterFailure
  /\ last' = Event("staleclose", FALSE, FALSE, 0, "none", NoPayload)
  /\ UNCHANGED <<variant, lifecycle, sockets, timers, reconnectTimeout, reconnectAttempt,
                 isWebSocketConnected, dataVars, sockBudget, msgBudget, nSched, arrived>>

(***************************************************************************)
(* Specifications                                                          *)
(***************************************************************************)
InitCommon ==
  /\ variant \in Variants
  /\ lifecycle = "created"
  /\ sockets = <<>>
  /\ timers = <<>>
  /\ reconnectTimeout = "null"
  /\ reconnectAttempt = 0
  /\ isWebSocketConnected = FALSE
  /\ dataPoints = <<>>
  /\ seriesKind = "array"
  /\ stale = 0
  /\ isLoading = InitialLoading
  /\ error = "null"
  /\ fetchState = "idle"
  /\ nSched = 0
  /\ arrived = [boot |-> FALSE, early |-> FALSE, seq |-> <<>>]
  /\ last = [ev |-> "init", cur |-> FALSE, opened |-> FALSE, delay |-> 0, sig |-> "none",
             payload |-> NoPayload,
             pre |-> [attempt |-> 0, live |-> 0, handle |-> "null", wsState |-> "null",
                      suspended |-> FALSE, len |-> 0]]

\* Connection-centred: any number of connections, one plain message
Init == InitCommon /\ sockBudget = -1 /\ msgBudget = ConnMsgs /\ failBudget = -1

Next ==
  \/ Mount
  \/ \E o \in PlainOutcomes : FetchDone(o)
  \/ \E s \in 1..MaxSock : SocketOpen(s)
  \/ \E s \in 1..MaxSock, p \in PlainPayloads : SocketMessage(s, p)
  \/ \E s \in 1..MaxSock : SocketError(s)
  \/ \E s \in 1..MaxSock : SocketClose(s)
  \/ \E t \in 1..MaxTimers : TimerFire(t)
  \/ \E sig \in Signals : RecoveryTrigger(sig)
  \/ Unmount

Spec == Init /\ [][Next]_vars

\* Data-centred: every payload and bootstrap outcome, a few connections
InitSeries ==
  InitCommon /\ sockBudget = DataSockets /\ msgBudget = MaxMsgs /\ failBudget = -1

NextSeries ==
  \/ Mount
  \/ \E o \in Outcomes : FetchDone(o)
  \/ \E s \in 1..MaxSock : SocketOpen(s)
  \/ \E s \in 1..MaxSock, p \in Payloads : SocketMessage(s, p)
  \/ \E s \in 1..MaxSock : SocketError(s)
  \/ \E s \in 1..MaxSock : SocketClose(s)
  \/ \E t \in 1..MaxTimers : TimerFire(t)
  \/ \E sig \in Signals : RecoveryTrigger(sig)
  \/ Unmount

SpecSeries == InitSeries /\ [][NextSeries]_vars

\* One connection that does not fail and one batch of one element, of every
\* kind: the element-wise check of onmessage applied to each kind of element.
InitValidate == InitCommon /\ sockBudget = 1 /\ msgBudget = 1 /\ failBudget = 0

NextValidate ==
  \/ Mount
  \/ \E o \in PlainOutcomes : FetchDone(o)
  \/ \E s \in 1..MaxSock : SocketOpen(s)
  \/ \E s \in 1..MaxSock, p \in ProbePayloads : SocketMessage(s, p)
  \/ Unmount

SpecValidate == InitValidate /\ [][NextValidate]_vars

\* Recovery without signals: the server pushes nothing, no visibilitychange
\* or online event arrives, and the streaming endpoint is available for good
\* after at most MaxFailures connection failures.
InitLive ==
  InitCommon /\ sockBudget = -1 /\ msgBudget = 0 /\ failBudget \in 0..MaxFailures

NextLive ==
  \/ Mount
  \/ \E o \in PlainOutcomes : FetchDone(o)
  \/ \E s \in 1..MaxSock : SocketOpen(s)
  \/ \E s \in 1..MaxSock : SocketError(s)
  \/ \E s \in 1..MaxSock : SocketClose(s)
  \/ \E t \in 1..MaxTimers : TimerFire(t)
  \/ Unmount

\* A pending setTimeout callback runs; a connection attempt that does not
\* fail opens; the close event of a failed instance follows its error event.
Fairness ==
  /\ WF_vars(\E t \in 1..MaxTimers : TimerFire(t))
  /\ WF_vars(\E s \in 1..MaxSock : SocketOpen(s))
  /\ WF_vars(\E s \in 1..Len(sockets) : sockets[s] = "ERRORED" /\ SocketClose(s))

SpecLive == InitLive /\ [][NextLive]_vars /\ Fairness

\* Re-activation: the effect is cleaned up and run again on the same hook
\* instance, with every kind of 2xx bootstrap body; the server pushes nothing.
InitRemount ==
  InitCommon /\ sockBudget = RemountSockets /\ msgBudget = 0 /\ failBudget = -1

NextRemount ==
  \/ Mount
  \/ \E o \in BootOutcomes : FetchDone(o)
  \/ \E s \in 1..MaxSock : SocketOpen(s)
  \/ \E s \in 1..MaxSock : SocketError(s)
  \/ \E s \in 1..MaxSock : SocketClose(s)
  \/ \E t \in 1..MaxTimers : TimerFire(t)
  \/ \E sig \in Signals : RecoveryTrigger(sig)
  \/ Unmount
  \/ Remount
  \/ StaleOpen
  \/ StaleClose

SpecRemount == InitRemount /\ [][NextRemount]_vars

\* A flapping endpoint: every connection attempt opens, and an open
\* connection can be lost again; no visibilitychange or online event.
InitFlap == InitCommon /\ sockBudget = FlapSockets /\ msgBudget = 0 /\ failBudget = -1

\* the error and close events of an instance that has opened
OpenedError(s) == s \in 1..Len(sockets) /\ sockets[s] = "OPEN" /\ SocketError(s)
OpenedClose(s) == s \in 1..Len(sockets) /\ sockets[s] # "CONNECTING" /\ SocketClose(s)

NextFlap ==
  \/ Mount
  \/ \E o \in PlainOutcomes : FetchDone(o)
  \/ \E s \in 1..MaxSock : SocketOpen(s)
  \/ \E s \in 1..MaxSock : OpenedError(s)
  \/ \E s \in 1..MaxSock : OpenedClose(s)
  \/ \E t \in 1..MaxTimers : TimerFire(t)
  \/ Unmount

SpecFlap == InitFlap /\ [][NextFlap]_vars

\* An endpoint that is down: no connection attempt ever opens, and no
\* visibilitychange or online event arrives.  The component is activated,
\* a pending setTimeout callback runs, and an attempt that cannot open fails.
InitDown == InitCommon /\ sockBudget = DownSockets /\ msgBudget = 0 /\ failBudget = -1

NextDown ==
  \/ Mount
  \/ \E o \in PlainOutcomes : FetchDone(o)
  \/ \E s \in 1..MaxSock : SocketError(s)
  \/ \E s \in 1..MaxSock : SocketClose(s)
  \/ \E t \in 1..MaxTimers : TimerFire(t)
  \/ Unmount

FairnessDown ==
  /\ WF_vars(Mount)
  /\ WF_vars(\E t \in 1..MaxTimers : TimerFire(t))
  /\ WF_vars(\E s \in 1..MaxSock : SocketClose(s))

SpecDown == InitDown /\ [][NextDown]_vars /\ FairnessDown

(***************************************************************************)
(* Properties                                                              *)
(***************************************************************************)
\* The validator as the specification words it: a non-null structured
\* record with all five fields whose price and volume are finite numbers.
SpecValid(c) ==
  /\ Point(c).kind = "object"
  /\ Point(c).missing = {}
  /\ Point(c).price = "number"
  /\ Point(c).volume = "number"

\* The backoff table of the specification, in seconds.
SpecTable == <<1, 2, 4, 8, 16, 30>>

\* C1: while the component is active at most one connection created by it is
\* connecting or open, and whenever setupWebSocket is invoked no earlier
\* instance is still connecting or open.
C1_OneLiveConnection ==
  /\ (isMounted => Cardinality(LiveSockets) <= 1)
  /\ (last.opened => last.pre.live = 0)

\* C2: the N-th retry timer scheduled in a run of closes without a recovery
\* trigger or a successful open in between has delay table[min(N-1, 5)]
\* seconds, N = 1..10.
C2_BackoffSchedule ==
  (last.ev = "close" /\ last.delay # 0 /\ nSched \in 1..MAX_RECONNECT_ATTEMPTS)
    => last.delay = 1000 * SpecTable[MinOf(nSched - 1, 5) + 1]

\* C3: once the attempt counter has reached 10, no step other than a
\* recovery trigger schedules a retry timer or invokes setupWebSocket: there
\* is no 11th automatic retry.
C3_SuspendedAtMax ==
  (last.pre.attempt >= MAX_RECONNECT_ATTEMPTS /\ last.ev # "trigger")
    => (~last.opened /\ last.delay = 0)

\* C4: right after an onopen the attempt counter is 0, whatever it was before.
C4_OpenResetsAttempt == last.ev = "open" => reconnectAttempt = 0

C4_Witness == last.ev = "open" /\ last.pre.attempt > 0 /\ last.cur

\* C5: a recovery trigger fired while suspended invokes setupWebSocket in the
\* same step, without a timer, and leaves the attempt counter at 0.
C5_TriggerLeavesSuspended ==
  (last.ev = "trigger" /\ last.pre.suspended)
    => /\ last.opened
       /\ reconnectAttempt = 0
       /\ ws # 0 /\ sockets[ws] = "CONNECTING"
       /\ timers = <<>>

C5_Witness ==
  /\ last.ev = "trigger"
  /\ last.pre.suspended
  /\ last.pre.attempt = MAX_RECONNECT_ATTEMPTS
  /\ last.opened

\* C6: deactivation cancels the pending retry timer and closes every open
\* connection, and setupWebSocket is never invoked after deactivation.
C6_Deactivation ==
  lifecycle = "unmounted" =>
    /\ ~last.opened
    /\ (last.ev = "unmount" =>
          /\ reconnectTimeout = "null"
          /\ \A s \in 1..Len(sockets) : sockets[s] # "OPEN")

\* C7: the series never holds more than 500 entries.
C7_SeriesBounded == Len(dataPoints) <= SeriesCap

\* C8: after a stream batch is applied the series is the last 500 elements of
\* the previous series followed by the accepted records of the batch, in
\* batch order: the entries removed are the earliest inserted ones.
C8_FifoEviction ==
  [][(/\ last'.ev = "message"
      /\ isMounted
      /\ last'.payload.json = "array"
      /\ Accepted(variant, last'.payload.items) # <<>>)
       => LET all == dataPoints \o Accepted(variant, last'.payload.items)
              n == MinOf(SeriesCap, Len(all))
          IN dataPoints' = SubSeq(all, Len(all) - n + 1, Len(all))]_vars

\* A batch evicted the earliest entry of a full series although the entries
\* it appended carry the oldest timestamp.
C8_Witness ==
  /\ last.ev = "message"
  /\ last.pre.len = SeriesCap - 1
  /\ Len(dataPoints) = SeriesCap
  /\ dataPoints[SeriesCap] = G2
  /\ dataPoints[SeriesCap - 1] = G1
  /\ dataPoints[1] = 2

\* C9: a malformed message (unparseable, not an array, or an array without a
\* single valid element) leaves the series as it was.
Malformed(p) ==
  \/ p.json # "array"
  \/ \A i \in 1..Len(p.items) : ~SpecValid(p.items[i])

C9_MalformedIgnored ==
  [][(last'.ev = "message" /\ Malformed(last'.payload)) => dataPoints' = dataPoints]_vars

\* C10: an array batch of N elements of which K < N are invalid makes the
\* series grow by exactly N-K entries, the valid elements in batch order.
C10_GrowsByValid ==
  [][(/\ last'.ev = "message"
      /\ isMounted
      /\ last'.payload.json = "array"
      /\ ~Malformed(last'.payload))
       => LET valid == SelectSeq(last'.payload.items, SpecValid)
          IN /\ Len(dataPoints') = Len(dataPoints) + Len(valid)
             /\ SubSeq(dataPoints', Len(dataPoints) + 1, Len(dataPoints')) = valid]_vars

\* C11: every element of the series is a fully valid data point, whether it
\* came with the bootstrap response or with a stream batch.
C11_SeriesValid == \A i \in 1..Len(dataPoints) : SpecValid(dataPoints[i])

\* C12: a successful bootstrap response handled while the component is active
\* makes the series equal to the parsed body, nothing of the previous series
\* kept, and isLoading false.
C12_BootstrapReplaces ==
  (last.ev = "fetch" /\ last.sig = "ok" /\ isMounted)
    => (dataPoints = last.payload.items /\ ~isLoading)

\* The response arrived after a stream batch had been applied.
C12_Witness ==
  /\ last.ev = "fetch" /\ last.sig = "ok" /\ isMounted
  /\ last.pre.len > 0
  /\ dataPoints = History(1)
  /\ ~isLoading

FetchFailed == last.ev = "fetch" /\ last.sig \in {"network", "status", "parse"}

\* C13 as stated: a failed bootstrap request handled while the component is
\* active leaves isLoading false, error set to a message and the series empty.
C13_FailureLeavesEmpty ==
  (FetchFailed /\ isMounted)
    => (~isLoading /\ error # "null" /\ dataPoints = <<>>)

\* C13 amended: a failed bootstrap request handled while the component is
\* active leaves isLoading false, error set to a message and the series as it
\* was: empty unless a stream batch was applied before the failure.
C13_FailureKeepsSeries ==
  [][(last'.ev = "fetch" /\ last'.sig \in {"network", "status", "parse"} /\ isMounted)
       => (~isLoading' /\ error' # "null" /\ dataPoints' = dataPoints)]_vars

C13_Witness ==
  /\ FetchFailed /\ isMounted
  /\ ~isLoading /\ error # "null"
  /\ last.pre.len > 0 /\ Len(dataPoints) = last.pre.len

\* The current connection has closed and no instance is connecting or open.
ConnectionLost == ws # 0 /\ sockets[ws] = "CLOSED" /\ LiveSockets = {}
Recovered == isWebSocketConnected /\ ws # 0 /\ sockets[ws] = "OPEN"

\* C14 as stated: whenever the connection has closed while the component is
\* active and the endpoint is available from then on, an open connection with
\* isWebSocketConnected true follows without any recovery signal.
C14_AutomaticRecovery ==
  (isMounted /\ ConnectionLost /\ failBudget = 0) ~> (Recovered \/ ~isMounted)

\* C14 amended: the same, for a connection that closed before the retries
\* were used up (attempt counter below 10); after the 10th failed retry the
\* client stays disconnected until a recovery signal arrives.
C14_RecoveryBeforeExhaustion ==
  (/\ isMounted /\ ConnectionLost /\ failBudget = 0
   /\ reconnectAttempt < MAX_RECONNECT_ATTEMPTS) ~> (Recovered \/ ~isMounted)

\* A retry opened the connection after the endpoint had failed.
C14_Witness ==
  /\ last.ev = "open" /\ last.pre.attempt > 0
  /\ isMounted /\ failBudget = 0 /\ Recovered

\* C15: an error event, a close event, a failed retry or the exhaustion of
\* the retries never changes error; a close handled while the component is
\* active leaves isWebSocketConnected false.
C15_FailuresNotSurfaced ==
  [][(last'.ev \in {"error", "close", "timer"})
       => /\ error' = error
          /\ (last'.ev = "close" /\ isMounted => ~isWebSocketConnected')]_vars

\* The close that exhausted the retries.
C15_Witness ==
  /\ last.ev = "close" /\ last.pre.attempt >= MAX_RECONNECT_ATTEMPTS
  /\ isMounted /\ ~isWebSocketConnected /\ error = "null" /\ timers = <<>>

\* C16: no step taken after deactivation changes the series, isLoading,
\* error, isWebSocketConnected or the attempt counter.
C16_NoMutationAfterUnmount ==
  [][lifecycle = "unmounted"
       => UNCHANGED <<dataPoints, isLoading, error, isWebSocketConnected,
                      reconnectAttempt>>]_vars

\* C17: a recovery trigger fired while the current connection is not open
\* and a retry timer is pending leaves no retry timer pending, the attempt
\* counter 0 and one newly created connecting instance.
C17_TriggerCancelsTimer ==
  (last.ev = "trigger" /\ last.pre.wsState # "OPEN" /\ last.pre.handle = "pending")
    => /\ last.opened
       /\ reconnectAttempt = 0
       /\ timers = <<>>
       /\ ws # 0 /\ sockets[ws] = "CONNECTING"

\* C18: a recovery trigger fired while the current connection is open changes
\* neither the instances, the attempt counter, the timers, the handle,
\* isWebSocketConnected nor the series.
C18_TriggerNoOpWhenOpen ==
  [][(last'.ev = "trigger" /\ ws # 0 /\ sockets[ws] = "OPEN")
       => UNCHANGED <<sockets, timers, reconnectTimeout, reconnectAttempt,
                      isWebSocketConnected, dataPoints>>]_vars

C18_Witness ==
  /\ last.ev = "trigger" /\ last.pre.wsState = "OPEN"
  /\ ~last.opened /\ isWebSocketConnected
  /\ ws # 0 /\ sockets[ws] = "OPEN"

\* C19: a visibility change to hidden does not cancel a pending timer, reset
\* the attempt counter or invoke setupWebSocket.
C19_HiddenIgnored ==
  [][(last'.ev = "trigger" /\ last'.sig = "hidden")
       => UNCHANGED <<sockets, timers, reconnectTimeout, reconnectAttempt>>]_vars

\* C20: right after an onopen, of whichever instance, no retry timer is
\* pending.
C20_OpenCancelsTimers == last.ev = "open" => timers = <<>>

\* C21: right after an onopen the exposed error is null.
C21_OpenClearsError == last.ev = "open" => error = "null"

\* C22: an error event changes neither isWebSocketConnected, the attempt
\* counter, the pending timers, the timer handle, the series nor error.
C22_ErrorEventInert ==
  [][last'.ev = "error"
       => UNCHANGED <<isWebSocketConnected, reconnectAttempt, timers, reconnectTimeout,
                      dataPoints, error>>]_vars

\* The current connection failed while open: still shown as connected, no
\* retry scheduled yet.
C22_Witness ==
  /\ last.ev = "error" /\ last.cur /\ last.pre.wsState = "OPEN"
  /\ isMounted /\ isWebSocketConnected /\ timers = <<>>

\* C23: a message, valid or malformed, changes neither the instances,
\* isWebSocketConnected, the attempt counter, the pending timers, the timer
\* handle, error nor isLoading.
C23_MessageKeepsConnection ==
  [][last'.ev = "message"
       => UNCHANGED <<sockets, isWebSocketConnected, reconnectAttempt, timers,
                      reconnectTimeout, error, isLoading>>]_vars

C23_Witness ==
  /\ last.ev = "message" /\ last.payload.json = "invalid"
  /\ isMounted /\ isWebSocketConnected /\ error = "null"

\* C24: an element of a batch is appended to the series if and only if it is
\* a non-null record with all five fields whose price_usd and volume_24h are
\* finite numbers.
C24_ValidatorExact ==
  (/\ last.ev = "message" /\ isMounted
   /\ last.payload.json = "array" /\ Len(last.payload.items) = 1)
    => ((/\ Len(dataPoints) = last.pre.len + 1
         /\ dataPoints[Len(dataPoints)] = last.payload.items[1])
        <=> SpecValid(last.payload.items[1]))

\* C25: a timer callback run while the component is active increments the
\* attempt counter by 1 and invokes setupWebSocket, an onopen and an acting
\* recovery trigger set it to 0, a close leaves it, and nothing else changes
\* it.
C25_CounterChanges ==
  [][/\ (last'.ev = "timer" /\ isMounted
            => reconnectAttempt' = reconnectAttempt + 1 /\ last'.opened)
     /\ (last'.ev = "open" => reconnectAttempt' = 0)
     /\ (last'.ev = "trigger" /\ last'.opened => reconnectAttempt' = 0)
     /\ (last'.ev = "close" => reconnectAttempt' = reconnectAttempt)
     /\ (reconnectAttempt' # reconnectAttempt
            => last'.ev \in {"timer", "open", "trigger"})]_vars

\* The close of a failed retry: the counter stays, the next timer is scheduled.
C25_Witness ==
  /\ last.ev = "close" /\ last.cur /\ last.pre.wsState = "CONNECTING"
  /\ last.pre.attempt > 1 /\ reconnectAttempt = last.pre.attempt
  /\ last.delay = DelayFor(reconnectAttempt)

\* C26: when the bootstrap response was processed before any stream batch,
\* the series is the last 500 elements of the bootstrap sequence followed by
\* the accepted records of every processed batch, in arrival order.
C26_ArrivalOrder ==
  (arrived.boot /\ ~arrived.early)
    => LET n == MinOf(SeriesCap, Len(arrived.seq))
       IN dataPoints = SubSeq(arrived.seq, Len(arrived.seq) - n + 1, Len(arrived.seq))

\* C27: a successful bootstrap response processed after stream records were
\* appended leaves the series equal to the bootstrap sequence only.
C27_LateBootstrapDiscards ==
  (last.ev = "fetch" /\ last.sig = "ok" /\ isMounted /\ arrived.early)
    => /\ dataPoints = last.payload.items
       /\ arrived.seq = last.payload.items

C27_Witness ==
  /\ last.ev = "fetch" /\ last.sig = "ok" /\ isMounted /\ arrived.early
  /\ last.pre.len = MaxBatch
  /\ dataPoints = History(1)
  /\ \A i \in 1..Len(dataPoints) : dataPoints[i] \notin Elements

\* C28: isLoading is false only once the bootstrap outcome has been
\* processed, never becomes true again, and is changed by no event other
\* than the bootstrap response.
C28_LoadingUntilBootstrap ==
  /\ (~isLoading => fetchState = "done")
  /\ [][/\ (~isLoading' => fetchState' = "done")
        /\ (~isLoading => ~isLoading')
        /\ (isLoading' # isLoading => last'.ev = "fetch")]_vars

C28_Witness ==
  /\ last.ev = "message" /\ ~isLoading /\ fetchState = "done"
  /\ isMounted /\ last.pre.len < Len(dataPoints)

\* The bootstrap has failed, or its response has not arrived yet.
BootstrapAbsent == error # "null" \/ fetchState = "pending"

\* C29: with the bootstrap failed or still pending, a batch of valid records
\* received while the component is active ends up at the end of the series,
\* and a close schedules the retry timer of the current attempt counter.
C29_StreamIndependent ==
  /\ (/\ last.ev = "message" /\ isMounted /\ BootstrapAbsent
      /\ last.payload.json = "array" /\ last.payload.items # <<>>
      /\ \A i \in 1..Len(last.payload.items) : SpecValid(last.payload.items[i]))
       => /\ Len(dataPoints) >= Len(last.payload.items)
          /\ SubSeq(dataPoints, Len(dataPoints) - Len(last.payload.items) + 1,
                    Len(dataPoints)) = last.payload.items
  /\ (/\ last.ev = "close" /\ isMounted /\ BootstrapAbsent
      /\ last.pre.attempt < MAX_RECONNECT_ATTEMPTS)
       => /\ last.delay = 1000 * SpecTable[MinOf(last.pre.attempt, 5) + 1]
          /\ reconnectTimeout = "pending"

C29_Witness ==
  /\ last.ev = "message" /\ isMounted /\ error # "null"
  /\ dataPoints = <<G1, G2>>

C31_ActivationOwnsRetryState ==
  /\ (last.ev \in {"mount", "remount"} => reconnectAttempt = 0 /\ timers = <<>>)
  /\ (last.ev \in {"staleopen", "staleclose"} => reconnectAttempt = last.pre.attempt)

\* C32: a 2xx bootstrap response whose body parses to something that is no
\* array is handled as a failure: error is set, isLoading is false and the
\* series still holds an array, the one it held before.
MalformedBody ==
  last.ev = "fetch" /\ last.sig = "ok" /\ last.payload.json \in {"object", "null"}
C32_MalformedBodyFails ==
  (MalformedBody /\ isMounted)
    => /\ error # "null"
       /\ ~isLoading
       /\ seriesKind = "array"
       /\ Len(dataPoints) = last.pre.len

\* C33: the bootstrap request is issued by the activation and by nothing
\* else: it is pending after every activation, its outcome ends it whatever
\* the outcome is, and no close, timer, open or recovery trigger issues it again.
Activations == {"mount", "remount"}
C33_SingleBootstrap ==
  [][/\ (last'.ev \in Activations => fetchState' = "pending")
     /\ (last'.ev = "fetch" => fetchState = "pending" /\ fetchState' = "done")
     /\ (last'.ev \notin Activations \cup {"fetch"} => fetchState' = fetchState)]_vars
C33_Witness ==
  /\ isMounted /\ last.ev \in {"timer", "trigger"} /\ last.opened
  /\ fetchState = "done" /\ error # "null"

C35_CounterInRange == reconnectAttempt \in 0..MAX_RECONNECT_ATTEMPTS

\* C36: at most one timer is pending, and the stored handle names it.
C36_OneTimer ==
  /\ Len(timers) <= 1
  /\ (timers # <<>> => reconnectTimeout = "pending")

\* C37: while mounted, isWebSocketConnected is true exactly when the current
\* instance is open, and the close event of a replaced instance schedules
\* no retry.
C37_FlagTracksCurrent ==
  /\ (isMounted /\ Quiescent)
       => (isWebSocketConnected <=> (ws # 0 /\ sockets[ws] = "OPEN"))
  /\ (last.ev = "close" /\ ~last.cur => last.delay = 0)

\* C38: when every attempt opens and open connections are lost again, every
\* retry is scheduled with the first delay of the table, the counter never
\* exceeds 1 and the hard stop is never reached.
C38_BackoffLostOnOpen ==
  /\ reconnectAttempt <= 1
  /\ (last.ev = "close" /\ last.delay # 0 => last.delay = RECONNECT_DELAYS[1])
  /\ ~Exhausted(reconnectAttempt)
  /\ ~Suspended
\* more connections than the hard stop allows in a row have been started
C38_Witness ==
  /\ last.ev = "timer" /\ last.opened /\ reconnectAttempt = 1
  /\ FlapSockets - sockBudget > MAX_RECONNECT_ATTEMPTS + 1

\* C39: after the cleanup no instance is connecting or open.
C39_NoLiveAfterCleanup ==
  lifecycle = "unmounted" => LiveSockets = {} /\ stale = 0

\* C40: when no attempt opens, the component, unless it is unmounted,
\* ends up for good with its connection closed, no timer pending, the
\* counter at MAX_RECONNECT_ATTEMPTS and isWebSocketConnected false, having
\* called setupWebSocket MAX_RECONNECT_ATTEMPTS + 1 times.
Terminated ==
  /\ Suspended
  /\ reconnectAttempt = MAX_RECONNECT_ATTEMPTS
  /\ ~isWebSocketConnected
  /\ ws # 0 /\ sockets[ws] = "CLOSED"
  /\ DownSockets - sockBudget = MAX_RECONNECT_ATTEMPTS + 1
C40_RetryingTerminates == <>[](lifecycle = "unmounted" \/ Terminated)
C40_Witness == Terminated /\ last.ev = "close" /\ last.cur

TypeOK ==
  /\ variant \in Variants
  /\ lifecycle \in {"created", "mounted", "unmounted"}
  /\ Len(sockets) <= MaxSock
  /\ \A s \in 1..Len(sockets) :
       sockets[s] \in {"CONNECTING", "OPEN", "CLOSING", "ERRORED", "CLOSED"}
  /\ Len(timers) <= MaxTimers
  /\ reconnectTimeout \in {"null", "pending", "fired"}
  /\ (reconnectTimeout = "pending" => timers # <<>>)
  /\ reconnectAttempt \in Nat
  /\ isWebSocketConnected \in BOOLEAN
  /\ isLoading \in BOOLEAN
  /\ seriesKind \in {"array", "object", "null"}
  /\ (seriesKind # "array" => dataPoints = <<>>)
  /\ stale \in Nat
  /\ failBudget \in -1..MaxFailures
  /\ arrived.boot \in BOOLEAN /\ arrived.early \in BOOLEAN

====
